---- MODULE Spec2Model ----
(***************************************************************************)
(* State-machine model of app_nutri.py: the SQLite tables clients and      *)
(* appointments, the table model of the client grid, the form widgets and  *)
(* the handlers of MainWindow.                                             *)
(*                                                                         *)
(* Representation of values                                                *)
(*   text        a sequence of one-character strings, <<"B","e","a">>      *)
(*   SQL NULL    NullText for a TEXT column, NullInt for an INTEGER one    *)
(*   INTEGER     <<n>> in a nullable column (age), n elsewhere             *)
(*   QDate       a record [y, m, d]                                        *)
(***************************************************************************)
EXTENDS Integers, Sequences, FiniteSets, TLC

VARIABLES
    clients,        \* table clients: set of rows, id is the primary key
    appointments,   \* table appointments: set of rows, id is the primary key
    seq_clients,    \* sqlite_sequence.seq of clients (AUTOINCREMENT)
    seq_appts,      \* sqlite_sequence.seq of appointments (AUTOINCREMENT)
    rows,           \* ClientsTableModel.rows, as last loaded
    current,        \* row of QTableView.currentIndex(), 0 when invalid
    form,           \* the field widgets ed_id .. chk_hidden
    list_next,      \* the items of the QListWidget list_next
    disk,           \* the CSV pair last written by export_csv
    today,          \* dt.date.today() / QDate.currentDate()
    sent,           \* the text last composed by compose_week_message
    last,           \* the handler that ran in the latest event and how it ended
    by_form,        \* ids of the client rows written by save_client
    ever            \* ids of every row the table clients has held

vars == <<clients, appointments, seq_clients, seq_appts, rows, current, form,
          list_next, disk, today, sent, last, by_form, ever>>

----------------------------------------------------------------------------
(* Bounds of the model *)

MaxClientId == 2    \* largest client id AUTOINCREMENT hands out
MaxApptId == 3      \* largest appointment id AUTOINCREMENT hands out
MaxListLen == 2     \* items in list_next

----------------------------------------------------------------------------
(* Text *)

NullText == <<"NULL">>
NullInt == <<>>

Range(s) == {s[i] : i \in 1..Len(s)}

\* The characters the model's texts are made of, in ascending order of their
\* UTF-8 bytes; "E-acute" is U+00C9 (bytes C3 89) and "e-acute" is U+00E9 (C3 A9).
Alphabet == <<" ", "-", "/", "0", "1", "2", "3", "4", "5", "6", "7", "8", "9",
              "A", "B", "a", "b", "e", "k", "n", "o", "x", "E-acute", "e-acute">>

Code(c) == CHOOSE i \in 1..Len(Alphabet) : Alphabet[i] = c

Digits == <<"0", "1", "2", "3", "4", "5", "6", "7", "8", "9">>

IsDigit(c) == \E i \in 1..10 : Digits[i] = c

DigitVal(c) == (CHOOSE i \in 1..10 : Digits[i] = c) - 1

\* SQLite NOCASE folds the 26 upper case ASCII letters.
Fold(c) == CASE c = "A" -> "a" [] c = "B" -> "b" [] OTHER -> c

RECURSIVE TextLess(_, _)
\* memcmp order of two texts (BINARY collation)
TextLess(s, t) ==
    IF t = <<>> THEN FALSE
    ELSE IF s = <<>> THEN TRUE
    ELSE IF Code(Head(s)) # Code(Head(t)) THEN Code(Head(s)) < Code(Head(t))
    ELSE TextLess(Tail(s), Tail(t))

NoCase(s) == [i \in 1..Len(s) |-> Fold(s[i])]

\* str.strip() for the whitespace the model types: the blank
RECURSIVE LStrip(_)
LStrip(s) == IF s # <<>> /\ Head(s) = " " THEN LStrip(Tail(s)) ELSE s

RECURSIVE RStrip(_)
RStrip(s) ==
    IF s # <<>> /\ s[Len(s)] = " " THEN RStrip(SubSeq(s, 1, Len(s) - 1)) ELSE s

strip(s) == RStrip(LStrip(s))

\* str(n) for n >= 0
RECURSIVE str(_)
str(n) == IF n < 10 THEN <<Digits[n + 1]>> ELSE str(n \div 10) \o <<Digits[(n % 10) + 1]>>

\* int(s) succeeds on a non-empty text of digits and raises ValueError otherwise
IsIntText(s) == s # <<>> /\ s # NullText /\ \A i \in 1..Len(s) : IsDigit(s[i])

RECURSIVE DigitsValue(_, _)
DigitsValue(s, acc) ==
    IF s = <<>> THEN acc ELSE DigitsValue(Tail(s), 10 * acc + DigitVal(Head(s)))

int(s) == DigitsValue(s, 0)

\* s.split("-")
RECURSIVE split(_, _)
split(s, cur) ==
    IF s = <<>> THEN <<cur>>
    ELSE IF Head(s) = "-" THEN <<cur>> \o split(Tail(s), <<>>)
    ELSE split(Tail(s), Append(cur, Head(s)))

\* f"{n:02d}" and a four digit year
pad2(n) == IF n < 10 THEN <<"0">> \o str(n) ELSE str(n)

pad4(n) ==
    IF n < 10 THEN <<"0", "0", "0">> \o str(n)
    ELSE IF n < 100 THEN <<"0", "0">> \o str(n)
    ELSE IF n < 1000 THEN <<"0">> \o str(n)
    ELSE str(n)

----------------------------------------------------------------------------
(* Dates *)

IsLeap(y) == (y % 4 = 0) /\ ((y % 100 # 0) \/ (y % 400 = 0))

DaysInMonth(y, m) ==
    IF m = 2 THEN (IF IsLeap(y) THEN 29 ELSE 28)
    ELSE IF m \in {4, 6, 9, 11} THEN 30 ELSE 31

\* datetime.date(y, m, d) and QDate(y, m, d) accept exactly these
ValidDate(y, m, d) ==
    /\ y \in 1..9999
    /\ m \in 1..12
    /\ d \in 1..DaysInMonth(y, m)

RECURSIVE DaysBeforeMonth(_, _)
DaysBeforeMonth(y, m) ==
    IF m = 1 THEN 0 ELSE DaysBeforeMonth(y, m - 1) + DaysInMonth(y, m - 1)

\* date.toordinal()
Ordinal(dt) ==
    LET y1 == dt.y - 1
    IN  365 * y1 + (y1 \div 4) - (y1 \div 100) + (y1 \div 400)
        + DaysBeforeMonth(dt.y, dt.m) + dt.d

InvalidQDate == [y |-> 0, m |-> 0, d |-> 0]

\* y, m, d = map(int, s.split("-")) succeeds on three texts of digits
HasYmd(s) ==
    LET parts == split(s, <<>>)
    IN  Len(parts) = 3 /\ \A i \in 1..3 : IsIntText(parts[i])

ymd(s) ==
    LET parts == split(s, <<>>)
    IN  <<int(parts[1]), int(parts[2]), int(parts[3])>>

qdate_to_str(qd) ==
    IF qd = InvalidQDate THEN <<>>
    ELSE pad4(qd.y) \o <<"-">> \o pad2(qd.m) \o <<"-">> \o pad2(qd.d)

str_to_qdate(s) ==
    IF ~HasYmd(s) THEN InvalidQDate
    ELSE LET p == ymd(s)
         IN  IF ValidDate(p[1], p[2], p[3])
             THEN [y |-> p[1], m |-> p[2], d |-> p[3]]
             ELSE InvalidQDate

human_date(s) ==
    IF ~HasYmd(s) THEN s
    ELSE LET p == ymd(s)
         IN  pad2(p[3]) \o <<"/">> \o pad2(p[2]) \o <<"/">> \o str(p[1])

----------------------------------------------------------------------------
(* The tables *)

T_retorno == <<"r", "e", "t", "o", "r", "n", "o">>
T_agendado == <<"a", "g", "e", "n", "d", "a", "d", "o">>
T_feito == <<"f", "e", "i", "t", "o">>

\* Python truth of a value read from a column or a CSV cell
TruthyText(v) == v # NullText /\ v # <<>>

TruthyInt(v) == v # NullInt /\ v[1] # 0

\* The orders of the rows of a set
RECURSIVE Orders(_)
Orders(S) ==
    IF S = {} THEN {<<>>}
    ELSE UNION {{<<x>> \o r : r \in Orders(S \ {x})} : x \in S}

\* ORDER BY hidden ASC, name COLLATE NOCASE ASC
ByHiddenThenName(a, b) ==
    \/ a.hidden < b.hidden
    \/ a.hidden = b.hidden /\ TextLess(NoCase(a.name), NoCase(b.name))

\* ORDER BY name COLLATE NOCASE ASC
ByName(a, b) == TextLess(NoCase(a.name), NoCase(b.name))

\* ORDER BY date ASC
ByDate(a, b) == TextLess(a.date, b.date)

\* rowid order, the order of a SELECT with no ORDER BY
ById(a, b) == a.id < b.id

\* The results a SELECT may return for a set of rows and an ORDER BY; rows the
\* ORDER BY does not tell apart come in either order.
Before(order, a, b) ==
    CASE order = "hidden, name" -> ByHiddenThenName(a, b)
      [] order = "name" -> ByName(a, b)
      [] order = "date" -> ByDate(a, b)
      [] order = "rowid" -> ById(a, b)

Select(S, order) ==
    {r \in Orders(S) : \A i, j \in 1..Len(r) : i < j => ~Before(order, r[j], r[i])}

\* SELECT date FROM appointments WHERE client_id=? AND status='agendado' ORDER BY date ASC
ScheduledOf(appts, cid) ==
    {a \in appts : a.client_id = cid /\ a.status = T_agendado}

ScheduledDates(appts, cid) ==
    LET r == CHOOSE q \in Select(ScheduledOf(appts, cid), "date") : TRUE
    IN  [i \in 1..Len(r) |-> r[i].date]

\* The nine columns ClientsTableModel.load selects
TableRow(c) ==
    [id |-> c.id, name |-> c.name, age |-> c.age, whatsapp |-> c.whatsapp,
     first_consult |-> c.first_consult, plan_months |-> c.plan_months,
     paid_returns |-> c.paid_returns, rescheduled |-> c.rescheduled,
     hidden |-> c.hidden]

\* ClientsTableModel.load: the results the SELECT may return
TableLoads(cs) == Select({TableRow(c) : c \in cs}, "hidden, name")

\* Faulty variant: one INSERT per distinct date of the list
InsertScheduledOnce(cid, dates, seq) ==
    {[id |-> seq + i, client_id |-> cid, date |-> dates[i],
      kind |-> T_retorno, status |-> T_agendado] :
         i \in {k \in 1..Len(dates) : \A j \in 1..(k - 1) : dates[j] # dates[k]}}

\* INSERT INTO appointments ... VALUES (?, ?, 'retorno', 'agendado'), once per date
InsertScheduled(cid, dates, seq) ==
    {[id |-> seq + i, client_id |-> cid, date |-> dates[i],
      kind |-> T_retorno, status |-> T_agendado] : i \in 1..Len(dates)}

----------------------------------------------------------------------------
(* The form *)

\* cb_plan.addItems(["1", "2", "3", "6", "12"])
PlanItems == <<<<"1">>, <<"2">>, <<"3">>, <<"6">>, <<"1", "2">>>>

AgeMax == 120
PaidMax == 12

\* QSpinBox.setValue clamps to the range of the box
Clamp(v, hi) == IF v < 0 THEN 0 ELSE IF v > hi THEN hi ELSE v

QToday == today

\* MainWindow.clear_form, the fields
ClearedForm ==
    [ed_id |-> <<>>, ed_name |-> <<>>, ed_age |-> 0, ed_whats |-> <<>>,
     dt_first |-> QToday, cb_plan |-> 0, sp_paid |-> 0,
     chk_resched |-> FALSE, chk_hidden |-> FALSE, ed_notes |-> <<>>]

\* Faulty variant: the name as typed, not stripped
FormNameAsTyped == form.ed_name

\* name = self.ed_name.text().strip()
FormName == strip(form.ed_name)

\* The values save_client and update_selected write to a clients row

FormRow(id) ==
    [id |-> id,
     name |-> FormName,
     age |-> <<form.ed_age>>,
     whatsapp |-> strip(form.ed_whats),
     first_consult |-> qdate_to_str(form.dt_first),
     plan_months |-> int(PlanItems[form.cb_plan + 1]),
     paid_returns |-> form.sp_paid,
     rescheduled |-> IF form.chk_resched THEN 1 ELSE 0,
     notes |-> strip(form.ed_notes),
     hidden |-> IF form.chk_hidden THEN 1 ELSE 0]

\* Faulty variant: setCurrentText finds no item
PlanIndexKept(text, cur) == cur

\* QComboBox.setCurrentText: the index of the item with that text, else no change
PlanIndexOf(text, cur) ==
    IF \E i \in 1..Len(PlanItems) : PlanItems[i] = text
    THEN (CHOOSE i \in 1..Len(PlanItems) : PlanItems[i] = text) - 1
    ELSE cur

\* QDateEdit.setDate ignores an invalid date
SetDate(cur, qd) == IF qd = InvalidQDate THEN cur ELSE qd

\* MainWindow.fill_form_from_db, the fields, for the row fetched
FilledForm(row) ==
    [ed_id |-> str(row.id),
     ed_name |-> IF TruthyText(row.name) THEN row.name ELSE <<>>,
     ed_age |-> Clamp(IF TruthyInt(row.age) THEN row.age[1] ELSE 0, AgeMax),
     ed_whats |-> IF TruthyText(row.whatsapp) THEN row.whatsapp ELSE <<>>,
     dt_first |-> SetDate(form.dt_first,
                          str_to_qdate(IF TruthyText(row.first_consult)
                                       THEN row.first_consult ELSE <<>>)),
     cb_plan |-> PlanIndexOf(str(IF row.plan_months # 0 THEN row.plan_months ELSE 2),
                             form.cb_plan),
     sp_paid |-> Clamp(row.paid_returns, PaidMax),
     chk_resched |-> row.rescheduled # 0,
     chk_hidden |-> row.hidden # 0,
     ed_notes |-> IF TruthyText(row.notes) THEN row.notes ELSE <<>>]

\* What the user types and ticks: the editable widgets, set together
FormInputs ==
    { [ed_name |-> <<" ", "B", "e", "a">>, ed_age |-> 30, ed_whats |-> <<" ", "8", "6">>,
       dt_first |-> [y |-> 2024, m |-> 5, d |-> 20], cb_plan |-> 2, sp_paid |-> 1,
       chk_resched |-> FALSE, chk_hidden |-> FALSE, ed_notes |-> <<"o", "k", " ">>],
      [ed_name |-> <<"a", "n", "a">>, ed_age |-> 0, ed_whats |-> <<>>,
       dt_first |-> [y |-> 2024, m |-> 2, d |-> 29], cb_plan |-> 4, sp_paid |-> 0,
       chk_resched |-> TRUE, chk_hidden |-> TRUE, ed_notes |-> <<>>],
      [ed_name |-> <<" ">>, ed_age |-> 0, ed_whats |-> <<>>,
       dt_first |-> [y |-> 2024, m |-> 5, d |-> 20], cb_plan |-> 0, sp_paid |-> 0,
       chk_resched |-> FALSE, chk_hidden |-> FALSE, ed_notes |-> <<>>] }

\* Names the user types in ed_name, with letters outside ASCII
TypedNames == { <<"E-acute", "b">>, <<"e-acute", "a">> }

\* The dates the user picks in dt_next
NextDates == { [y |-> 2024, m |-> 6, d |-> 4] }

----------------------------------------------------------------------------
(* Events *)

\* last: the handler, how it ended, the client it acted on and the button
\* pressed in its question box, "" when it showed none
Idle == [op |-> "input", outcome |-> "", cid |-> 0, answer |-> ""]

Call(op, outcome, cid) == [op |-> op, outcome |-> outcome, cid |-> cid, answer |-> ""]

Asked(op, outcome, cid, answer) ==
    [op |-> op, outcome |-> outcome, cid |-> cid, answer |-> answer]

\* The buttons of the box of ask_yes_no
Answers == {"Yes", "No"}

\* Faulty variant: the answer is not looked at
ask_yes_no_ignored(answer) == TRUE

\* ask_yes_no: box.exec() == QtWidgets.QMessageBox.Yes
ask_yes_no(answer) == answer = "Yes"

\* MainWindow.load_table: the model is reset, which leaves the view without a
\* current index
load_table ==
    /\ rows' \in TableLoads(clients')
    /\ current' = 0

\* The user edits the fields of the form
edit_form ==
    /\ \E inp \in FormInputs :
          form' = [ed_id |-> form.ed_id, ed_name |-> inp.ed_name, ed_age |-> inp.ed_age,
                   ed_whats |-> inp.ed_whats, dt_first |-> inp.dt_first,
                   cb_plan |-> inp.cb_plan, sp_paid |-> inp.sp_paid,
                   chk_resched |-> inp.chk_resched, chk_hidden |-> inp.chk_hidden,
                   ed_notes |-> inp.ed_notes]
    /\ last' = Idle
    /\ UNCHANGED <<clients, appointments, seq_clients, seq_appts, rows, current,
                   list_next, disk, today, sent, by_form, ever>>

\* The user types a name in ed_name
type_name ==
    /\ \E n \in TypedNames : form' = [form EXCEPT !.ed_name = n]
    /\ last' = Idle
    /\ UNCHANGED <<clients, appointments, seq_clients, seq_appts, rows, current,
                   list_next, disk, today, sent, by_form, ever>>

\* The user clicks a row of the table
select_row ==
    /\ \E i \in 1..Len(rows) : current' = i
    /\ last' = Idle
    /\ UNCHANGED <<clients, appointments, seq_clients, seq_appts, rows, form,
                   list_next, disk, today, sent, by_form, ever>>

\* MainWindow.add_next_date
add_next_date ==
    /\ Len(list_next) < MaxListLen
    /\ \E d \in NextDates : list_next' = Append(list_next, qdate_to_str(d))
    /\ last' = Call("add_next_date", "ok", 0)
    /\ UNCHANGED <<clients, appointments, seq_clients, seq_appts, rows, current,
                   form, disk, today, sent, by_form, ever>>

\* MainWindow.remove_selected_next; the list selects one item at a time, i = 0
\* when none is selected
remove_selected_next ==
    /\ \E i \in 0..Len(list_next) :
          list_next' = IF i = 0 THEN list_next
                       ELSE SubSeq(list_next, 1, i - 1)
                            \o SubSeq(list_next, i + 1, Len(list_next))
    /\ last' = Call("remove_selected_next", "ok", 0)
    /\ UNCHANGED <<clients, appointments, seq_clients, seq_appts, rows, current,
                   form, disk, today, sent, by_form, ever>>

\* MainWindow.clear_form, as the handler of the button Novo
clear_form ==
    /\ form' = ClearedForm
    /\ list_next' = <<>>
    /\ last' = Call("clear_form", "ok", 0)
    /\ UNCHANGED <<clients, appointments, seq_clients, seq_appts, rows, current,
                   disk, today, sent, by_form, ever>>

\* MainWindow.table_double_clicked and fill_form_from_db; the double click makes
\* the row the current one
table_double_clicked ==
    \E i \in 1..Len(rows) :
        LET client_id == rows[i].id
            found == {c \in clients : c.id = client_id}
        IN  /\ current' = i
            /\ IF found = {}
               THEN /\ UNCHANGED <<form, list_next>>
                    /\ last' = Call("fill_form_from_db", "absent", client_id)
               ELSE /\ form' = FilledForm(CHOOSE c \in found : TRUE)
                    /\ list_next' = ScheduledDates(appointments, client_id)
                    /\ last' = Call("fill_form_from_db", "ok", client_id)
            /\ UNCHANGED <<clients, appointments, seq_clients, seq_appts, rows,
                           disk, today, sent, by_form, ever>>

\* The rowid a plain INTEGER PRIMARY KEY would give: one more than the largest
\* rowid in the table
NextRowid == (IF clients = {} THEN 0
              ELSE CHOOSE n \in {c.id : c \in clients} : \A c \in clients : c.id <= n) + 1

\* id INTEGER PRIMARY KEY AUTOINCREMENT: one more than the largest rowid the
\* table has ever held, which sqlite_sequence keeps
NextClientId == seq_clients + 1

\* MainWindow.save_client
save_client ==
    IF FormName = <<>>
    THEN /\ last' = Call("save_client", "warning", 0)
         /\ UNCHANGED <<clients, appointments, seq_clients, seq_appts, rows,
                        current, form, list_next, disk, today, sent, by_form, ever>>
    ELSE LET client_id == NextClientId
         IN  /\ client_id <= MaxClientId
             /\ seq_appts + Len(list_next) <= MaxApptId
             /\ clients' = clients \cup {FormRow(client_id)}
             /\ seq_clients' = client_id
             /\ appointments' =
                    appointments \cup InsertScheduled(client_id, list_next, seq_appts)
             /\ seq_appts' = seq_appts + Len(list_next)
             /\ form' = ClearedForm
             /\ list_next' = <<>>
             /\ load_table
             /\ last' = Call("save_client", "ok", client_id)
             /\ by_form' = by_form \cup {client_id}
             /\ ever' = ever \cup {client_id}
             /\ UNCHANGED <<disk, today, sent>>

\* Faulty variant: the DELETE of update_selected without its status condition
ReplaceEvery(appts, cid, dates, seq) ==
    {a \in appts : a.client_id # cid} \cup InsertScheduled(cid, dates, seq)

\* DELETE FROM appointments WHERE client_id=? AND status='agendado', then one
\* INSERT per item of list_next
ReplaceScheduled(appts, cid, dates, seq) ==
    (appts \ ScheduledOf(appts, cid)) \cup InsertScheduled(cid, dates, seq)

\* Faulty variant: the id shown in ed_id, not the one of the current row
form_client_id == IF IsIntText(form.ed_id) THEN int(form.ed_id) ELSE 0

\* MainWindow.current_selected_client_id: 0 stands for None
current_selected_client_id == IF current = 0 THEN 0 ELSE rows[current].id

\* MainWindow.update_selected
update_selected ==
    LET client_id == current_selected_client_id
    IN  IF client_id = 0
        THEN /\ last' = Call("update_selected", "warning", 0)
             /\ UNCHANGED <<clients, appointments, seq_clients, seq_appts, rows,
                            current, form, list_next, disk, today, sent, by_form, ever>>
        ELSE /\ seq_appts + Len(list_next) <= MaxApptId
             /\ clients' = {IF c.id = client_id THEN FormRow(client_id) ELSE c :
                            c \in clients}
             /\ appointments' =
                    ReplaceScheduled(appointments, client_id, list_next, seq_appts)
             /\ seq_appts' = seq_appts + Len(list_next)
             /\ load_table
             /\ last' = Call("update_selected", "ok", client_id)
             /\ UNCHANGED <<seq_clients, form, list_next, disk, today, sent, by_form, ever>>

\* Faulty variant: the DELETE of remove_selected with the status condition of update_selected
AppointmentsWithoutScheduled(appts, cid) == appts \ ScheduledOf(appts, cid)

\* DELETE FROM appointments WHERE client_id=?
AppointmentsWithout(appts, cid) == {a \in appts : a.client_id # cid}

\* MainWindow.remove_selected; answer is the button pressed in the box of ask_yes_no
remove_selected ==
    LET client_id == current_selected_client_id
    IN  IF client_id = 0
        THEN /\ last' = Call("remove_selected", "warning", 0)
             /\ UNCHANGED <<clients, appointments, seq_clients, seq_appts, rows,
                            current, form, list_next, disk, today, sent, by_form, ever>>
        ELSE \E answer \in Answers :
               IF ~ask_yes_no(answer)
               THEN /\ last' = Asked("remove_selected", "declined", client_id, answer)
                    /\ UNCHANGED <<clients, appointments, seq_clients, seq_appts,
                                   rows, current, form, list_next, disk, today,
                                   sent, by_form, ever>>
               ELSE /\ appointments' = AppointmentsWithout(appointments, client_id)
                    /\ clients' = {c \in clients : c.id # client_id}
                    /\ load_table
                    /\ form' = ClearedForm
                    /\ list_next' = <<>>
                    /\ last' = Asked("remove_selected", "ok", client_id, answer)
                    /\ by_form' = by_form \ {client_id}
                    /\ UNCHANGED <<seq_clients, seq_appts, disk, today, sent, ever>>

----------------------------------------------------------------------------
(* CSV *)

\* Faulty variant: None written as the number 0
CellOfIntZero(v) == IF v = NullInt THEN <<"0">> ELSE str(v[1])

\* csv.writer writes None as the empty cell, a number by str and a text as it is
CellOfInt(v) == IF v = NullInt THEN <<>> ELSE str(v[1])

CellOfText(v) == IF v = NullText THEN <<>> ELSE v

CsvClientRow(c) ==
    <<str(c.id), CellOfText(c.name), CellOfInt(c.age), CellOfText(c.whatsapp),
      CellOfText(c.first_consult), str(c.plan_months), str(c.paid_returns),
      str(c.rescheduled), CellOfText(c.notes), str(c.hidden)>>

CsvApptRow(a) ==
    <<str(a.client_id), CellOfText(a.date), CellOfText(a.kind), CellOfText(a.status)>>

\* The two files export_csv writes, rows in rowid order
CsvFiles(cs, as) ==
    LET rc == CHOOSE r \in Select(cs, "rowid") : TRUE
        ra == CHOOSE r \in Select(as, "rowid") : TRUE
    IN  [exists |-> TRUE, has_appts |-> TRUE,
         clients |-> [i \in 1..Len(rc) |-> CsvClientRow(rc[i])],
         appts |-> [i \in 1..Len(ra) |-> CsvApptRow(ra[i])]]

\* csv.DictReader: the k-th column of a row, None when the row is short
Cell(row, k) == IF k <= Len(row) THEN row[k] ELSE NullText

\* int(cell or default) raises on a non-empty cell that is no number
IntOrDefaultOk(cell) == TruthyText(cell) => IsIntText(cell)

IntOrDefault(cell, default) == IF TruthyText(cell) THEN int(cell) ELSE default

\* The INSERT of one clients row succeeds
ClientRowOk(row) ==
    /\ IsIntText(Cell(row, 1))
    /\ Cell(row, 2) # NullText
    /\ \A k \in {3, 6, 7, 8, 10} : IntOrDefaultOk(Cell(row, k))

ImportedClient(row) ==
    [id |-> int(Cell(row, 1)),
     name |-> Cell(row, 2),
     age |-> IF TruthyText(Cell(row, 3)) THEN <<int(Cell(row, 3))>> ELSE NullInt,
     whatsapp |-> Cell(row, 4),
     first_consult |-> IF TruthyText(Cell(row, 5)) THEN Cell(row, 5) ELSE NullText,
     plan_months |-> IntOrDefault(Cell(row, 6), 2),
     paid_returns |-> IntOrDefault(Cell(row, 7), 0),
     rescheduled |-> IntOrDefault(Cell(row, 8), 0),
     notes |-> Cell(row, 9),
     hidden |-> IntOrDefault(Cell(row, 10), 0)]

\* The INSERT of one appointments row succeeds
ApptRowOk(row) == IsIntText(Cell(row, 1)) /\ Cell(row, 2) # NullText

ImportedAppt(row, id) ==
    [id |-> id, client_id |-> int(Cell(row, 1)), date |-> Cell(row, 2),
     kind |-> Cell(row, 3), status |-> Cell(row, 4)]

\* Every INSERT of import_csv succeeds; a repeated id breaks the primary key
ImportOk(f) ==
    /\ \A i \in 1..Len(f.clients) : ClientRowOk(f.clients[i])
    /\ \A i, j \in 1..Len(f.clients) :
          i # j => Cell(f.clients[i], 1) # Cell(f.clients[j], 1)
    /\ \A i \in 1..Len(f.appts) : ApptRowOk(f.appts[i])

ImportedClients(f) == {ImportedClient(f.clients[i]) : i \in 1..Len(f.clients)}

ImportedAppts(f, seq) == {ImportedAppt(f.appts[i], seq + i) : i \in 1..Len(f.appts)}

Max(S, default) == IF S = {} THEN default ELSE CHOOSE x \in S : \A y \in S : y <= x

D_0604 == <<"2", "0", "2", "4", "-", "0", "6", "-", "0", "4">>
D_0530 == <<"2", "0", "2", "4", "-", "0", "5", "-", "3", "0">>
D_0229 == <<"2", "0", "2", "4", "-", "0", "2", "-", "2", "9">>

\* The files the user may pick in the dialog of import_csv, besides the pair on disk
ImportFiles ==
    { \* two clients, the first with every optional cell blank; appointments
      \* with two statuses
      [exists |-> TRUE, has_appts |-> TRUE,
       clients |-> << <<<<"1">>, <<"B", "e", "a">>, <<>>, <<>>, <<>>, <<>>, <<>>, <<>>,
                        <<>>, <<>>>>,
                      <<<<"2">>, <<"a", "n", "a">>, <<"4", "1">>, <<"8", "6">>, D_0229,
                        <<"5">>, <<"1">>, <<"0">>, <<"o", "k">>, <<"1">>>> >>,
       appts |-> << <<<<"2">>, D_0604, T_retorno, T_agendado>>,
                    <<<<"2">>, D_0530, T_retorno, T_feito>> >>],
      \* a short clients row, and an appointment of a client the file does not hold
      [exists |-> TRUE, has_appts |-> TRUE,
       clients |-> << <<<<"2">>, <<"B", "e", "a">>>> >>,
       appts |-> << <<<<"1">>, D_0604, T_retorno, T_agendado>> >>],
      \* a row whose id is no number
      [exists |-> TRUE, has_appts |-> TRUE,
       clients |-> << <<<<"1">>, <<"B", "e", "a">>>>, <<<<"x">>, <<"a", "n", "a">>>> >>,
       appts |-> << >>],
      \* a clients file with no *_consultas.csv next to it
      [exists |-> TRUE, has_appts |-> FALSE, clients |-> << >>, appts |-> << >>],
      \* the dialog is cancelled
      [exists |-> FALSE] }

NoDisk == [exists |-> FALSE]

\* MainWindow.export_csv; named is FALSE when the dialog is cancelled
export_csv ==
    \E named \in BOOLEAN :
        /\ IF named
           THEN /\ disk' = CsvFiles(clients, appointments)
                /\ last' = Call("export_csv", "ok", 0)
           ELSE /\ disk' = disk
                /\ last' = Call("export_csv", "cancelled", 0)
        /\ UNCHANGED <<clients, appointments, seq_clients, seq_appts, rows, current,
                       form, list_next, today, sent, by_form, ever>>

\* MainWindow.import_csv for the file picked; answer is the button pressed in
\* the box of ask_yes_no
import_file(f, answer, src) ==
    IF ~f.exists
    THEN /\ last' = Call("import_csv", "cancelled", 0)
         /\ UNCHANGED <<clients, appointments, seq_clients, seq_appts, rows, current,
                        form, list_next, disk, today, sent, by_form, ever>>
    ELSE IF ~f.has_appts
    THEN /\ last' = Call("import_csv", "missing", 0)
         /\ UNCHANGED <<clients, appointments, seq_clients, seq_appts, rows, current,
                        form, list_next, disk, today, sent, by_form, ever>>
    ELSE IF ~ask_yes_no(answer)
    THEN /\ last' = Asked("import_csv", "declined", 0, answer)
         /\ UNCHANGED <<clients, appointments, seq_clients, seq_appts, rows, current,
                        form, list_next, disk, today, sent, by_form, ever>>
    ELSE IF ~ImportOk(f)
    THEN \* the exception leaves the with block, which rolls back
         /\ last' = Asked("import_csv", "exception", 0, answer)
         /\ UNCHANGED <<clients, appointments, seq_clients, seq_appts, rows, current,
                        form, list_next, disk, today, sent, by_form, ever>>
    ELSE /\ seq_appts + Len(f.appts) <= MaxApptId
         /\ clients' = ImportedClients(f)
         /\ appointments' = ImportedAppts(f, seq_appts)
         /\ seq_clients' = Max({c.id : c \in ImportedClients(f)} \cup {seq_clients}, 0)
         /\ seq_appts' = seq_appts + Len(f.appts)
         /\ load_table
         /\ last' = Asked("import_csv", src, 0, answer)
         /\ by_form' = {}
         /\ ever' = ever \cup {c.id : c \in ImportedClients(f)}
         /\ UNCHANGED <<form, list_next, disk, today, sent>>

\* import_csv of one of the files of ImportFiles
import_csv == \E f \in ImportFiles, answer \in Answers : import_file(f, answer, "ok")

\* import_csv of the pair export_csv wrote
import_exported ==
    \E answer \in Answers : disk.exists /\ import_file(disk, answer, "ok-exported")

\* A pair holding the one client 1 and no appointment
OneClientFiles ==
    { [exists |-> TRUE, has_appts |-> TRUE,
       clients |-> << <<<<"1">>, <<"a", "n", "a">>, <<"4", "1">>, <<>>, D_0229,
                        <<"3">>, <<"0">>, <<"0">>, <<>>, <<"0">>>> >>,
       appts |-> << >>] }

\* import_csv of a pair of OneClientFiles
import_one_client ==
    \E f \in OneClientFiles, answer \in Answers : import_file(f, answer, "ok")

----------------------------------------------------------------------------
(* Reports *)

T_oculto == <<" ", "(", "O", "C", "U", "L", "T", "O", ")">>
T_dash == <<"-">>

\* ", ".join(texts)
RECURSIVE join(_)
join(texts) ==
    IF texts = <<>> THEN <<>>
    ELSE IF Len(texts) = 1 THEN texts[1]
    ELSE texts[1] \o <<",", " ">> \o join(Tail(texts))

\* One row of the table of export_pdf
PdfRow(c, appts) ==
    LET dates == ScheduledDates(appts, c.id)
        shown == [i \in 1..Len(dates) |-> human_date(dates[i])]
    IN  [name |-> c.name \o (IF c.hidden # 0 THEN T_oculto ELSE <<>>),
         age |-> IF TruthyInt(c.age) THEN str(c.age[1]) ELSE <<>>,
         whatsapp |-> IF TruthyText(c.whatsapp) THEN c.whatsapp ELSE <<>>,
         first_consult |-> human_date(IF TruthyText(c.first_consult)
                                      THEN c.first_consult ELSE <<>>),
         upcoming |-> IF shown # <<>> THEN join(shown) ELSE T_dash,
         plan |-> str(c.plan_months),
         paid |-> str(c.paid_returns),
         notes |-> IF TruthyText(c.notes) THEN c.notes ELSE T_dash]

\* The rows export_pdf draws under the header, for a result of its SELECT
PdfData(order, appts) == [i \in 1..Len(order) |-> PdfRow(order[i], appts)]

\* The results of the SELECT of export_pdf
PdfOrders(cs) == Select(cs, "hidden, name")

\* Faulty variant: date_obj < limit
InWeekBeforeLimit(d, t) ==
    /\ HasYmd(d)
    /\ LET p == ymd(d)
       IN  /\ ValidDate(p[1], p[2], p[3])
           /\ Ordinal(t) <= Ordinal([y |-> p[1], m |-> p[2], d |-> p[3]])
           /\ Ordinal([y |-> p[1], m |-> p[2], d |-> p[3]]) < Ordinal(t) + 7

\* today <= date_obj <= limit, for a text that parses to a date
InWeek(d, t) ==
    /\ HasYmd(d)
    /\ LET p == ymd(d)
       IN  /\ ValidDate(p[1], p[2], p[3])
           /\ Ordinal(t) <= Ordinal([y |-> p[1], m |-> p[2], d |-> p[3]])
           /\ Ordinal([y |-> p[1], m |-> p[2], d |-> p[3]]) <= Ordinal(t) + 7

\* Faulty variant: the SELECT without its WHERE
DigestEveryClient(cs) == cs

\* SELECT ... FROM clients c WHERE c.hidden=0
DigestClients(cs) == {c \in cs : c.hidden = 0}

\* The results of the SELECT of compose_week_message
DigestOrders(cs) == Select(DigestClients(cs), "name")

\* appts_in_week of one client
ApptsInWeek(c, appts, t) ==
    LET dates == ScheduledDates(appts, c.id)
    IN  SelectSeq([i \in 1..Len(dates) |->
                      IF InWeek(dates[i], t) THEN human_date(dates[i]) ELSE NullText],
                  LAMBDA x : x # NullText)

\* The lines one client adds to the message; cid is the client of the loop and
\* is not part of the text
DigestBlock(c, appts, t) ==
    [line |-> "block", cid |-> c.id,
     nome |-> c.name,
     idade |-> IF TruthyInt(c.age) THEN str(c.age[1]) ELSE T_dash,
     whatsapp |-> IF TruthyText(c.whatsapp) THEN c.whatsapp ELSE T_dash,
     primeira |-> IF TruthyText(c.first_consult) THEN human_date(c.first_consult)
                  ELSE T_dash,
     proximas |-> join(ApptsInWeek(c, appts, t)),
     datas |-> ApptsInWeek(c, appts, t),
     plano |-> c.plan_months, pagos |-> c.paid_returns,
     obs |-> IF TruthyText(c.notes) THEN c.notes ELSE T_dash]

RECURSIVE DigestBlocks(_, _, _)
DigestBlocks(order, appts, t) ==
    IF order = <<>> THEN <<>>
    ELSE (IF ApptsInWeek(Head(order), appts, t) # <<>>
          THEN <<DigestBlock(Head(order), appts, t)>> ELSE <<>>)
         \o DigestBlocks(Tail(order), appts, t)

\* MainWindow.compose_week_message, for a result of its SELECT
compose_week_message(order, appts, t) ==
    LET lines == <<[line |-> "header"]>> \o DigestBlocks(order, appts, t)
    IN  IF Len(lines) = 1 THEN Append(lines, [line |-> "none"]) ELSE lines

\* MainWindow.send_week_whatsapp; kit is FALSE when pywhatkit is missing and
\* delivered is FALSE when sendwhatmsg_instantly raises
send_week_whatsapp ==
    \E kit \in BOOLEAN, delivered \in BOOLEAN :
        /\ IF ~kit
           THEN /\ sent' = sent
                /\ last' = Call("send_week_whatsapp", "warning", 0)
           ELSE /\ \E order \in DigestOrders(clients) :
                      sent' = compose_week_message(order, appointments, today)
                /\ last' = Call("send_week_whatsapp",
                                IF delivered THEN "ok" ELSE "failed", 0)
        /\ UNCHANGED <<clients, appointments, seq_clients, seq_appts, rows, current,
                       form, list_next, disk, today, by_form, ever>>

----------------------------------------------------------------------------
(* Specification *)

Day0 == [y |-> 2024, m |-> 6, d |-> 1]

Init ==
    /\ clients = {}
    /\ appointments = {}
    /\ seq_clients = 0
    /\ seq_appts = 0
    /\ rows = <<>>
    /\ current = 0
    /\ today = Day0
    /\ form = [ed_id |-> <<>>, ed_name |-> <<>>, ed_age |-> 0, ed_whats |-> <<>>,
               dt_first |-> Day0, cb_plan |-> 0, sp_paid |-> 0,
               chk_resched |-> FALSE, chk_hidden |-> FALSE, ed_notes |-> <<>>]
    /\ list_next = <<>>
    /\ disk = NoDisk
    /\ sent = <<>>
    /\ last = Idle
    /\ by_form = {}
    /\ ever = {}

Next ==
    \/ edit_form
    \/ select_row
    \/ add_next_date
    \/ remove_selected_next
    \/ clear_form
    \/ table_double_clicked
    \/ save_client
    \/ update_selected
    \/ remove_selected

Spec == Init /\ [][Next]_vars

\* The handlers that read and write the CSV pair, with the ones that act on the
\* rows an import brings
NextCsv ==
    \/ select_row
    \/ add_next_date
    \/ table_double_clicked
    \/ update_selected
    \/ remove_selected
    \/ export_csv
    \/ import_csv
    \/ import_exported

SpecCsv == Init /\ [][NextCsv]_vars

\* The handlers that add and remove clients rows: Save, Delete and Import CSV
NextIds ==
    \/ edit_form
    \/ select_row
    \/ save_client
    \/ remove_selected
    \/ import_one_client
    \/ import_csv

SpecIds == Init /\ [][NextIds]_vars

\* The handlers that end with load_table, with the input they act on
NextTable ==
    \/ edit_form
    \/ type_name
    \/ select_row
    \/ table_double_clicked
    \/ save_client
    \/ update_selected
    \/ remove_selected
    \/ import_one_client

SpecTable == Init /\ [][NextTable]_vars

\* The weekly message, composed over the databases of InitDigest
MaxDigestAppts == 2

Todays ==
    { [y |-> 2024, m |-> 6, d |-> 1], [y |-> 2024, m |-> 2, d |-> 25],
      [y |-> 2023, m |-> 12, d |-> 28] }

DigestDates ==
    { <<"2", "0", "2", "4", "-", "0", "5", "-", "3", "1">>,
      <<"2", "0", "2", "4", "-", "0", "6", "-", "0", "1">>,
      <<"2", "0", "2", "4", "-", "0", "6", "-", "0", "8">>,
      <<"2", "0", "2", "4", "-", "0", "6", "-", "0", "9">>,
      <<"2", "0", "2", "4", "-", "0", "3", "-", "0", "3">>,
      <<"2", "0", "2", "4", "-", "0", "3", "-", "0", "4">>,
      <<"2", "0", "2", "4", "-", "0", "1", "-", "0", "4">>,
      <<"2", "0", "2", "4", "-", "0", "1", "-", "0", "5">>,
      <<"2", "0", "2", "3", "-", "1", "2", "-", "2", "7">>,
      <<"2", "0", "2", "3", "-", "1", "2", "-", "2", "8">>,
      <<"2", "0", "2", "4", "-", "0", "2", "-", "2", "4">>,
      <<"2", "0", "2", "4", "-", "0", "2", "-", "2", "5">>,
      <<"2", "0", "2", "4", "-", "0", "2", "-", "3", "0">>,
      <<"2", "0", "2", "4", "-", "0", "6">>,
      <<"x">> }

DigestClientRows ==
    { [id |-> 1, name |-> <<"B", "e", "a">>, age |-> <<30>>, whatsapp |-> <<"8", "6">>,
       first_consult |-> D_0530, plan_months |-> 3, paid_returns |-> 1,
       rescheduled |-> 0, notes |-> <<"o", "k">>, hidden |-> 0],
      [id |-> 2, name |-> <<"a", "n", "a">>, age |-> NullInt, whatsapp |-> <<>>,
       first_consult |-> NullText, plan_months |-> 2, paid_returns |-> 0,
       rescheduled |-> 0, notes |-> <<>>, hidden |-> 1] }

\* The appointments rows the databases of InitDigest are made of: every date
\* for the visible client, and rows that are done or belong to the hidden one
DigestApptRows ==
    ({1} \X DigestDates \X {T_agendado})
    \cup ({1} \X {qdate_to_str(t) : t \in Todays} \X {T_feito})
    \cup ({2} \X {qdate_to_str(t) : t \in Todays} \X {T_agendado})

InitDigest ==
    /\ today \in Todays
    /\ clients = DigestClientRows
    /\ \E n \in 0..MaxDigestAppts :
          \E f \in [1..n -> DigestApptRows] :
              /\ appointments = {[id |-> i, client_id |-> f[i][1], date |-> f[i][2],
                                  kind |-> T_retorno, status |-> f[i][3]] : i \in 1..n}
              /\ seq_appts = n
    /\ seq_clients = 2
    /\ rows \in TableLoads(clients)
    /\ current = 0
    /\ form = [ed_id |-> <<>>, ed_name |-> <<>>, ed_age |-> 0, ed_whats |-> <<>>,
               dt_first |-> today, cb_plan |-> 0, sp_paid |-> 0,
               chk_resched |-> FALSE, chk_hidden |-> FALSE, ed_notes |-> <<>>]
    /\ list_next = <<>>
    /\ disk = NoDisk
    /\ sent = <<>>
    /\ last = Idle
    /\ by_form = {}
    /\ ever = {c.id : c \in clients}

NextDigest == send_week_whatsapp

SpecDigest == InitDigest /\ [][NextDigest]_vars

----------------------------------------------------------------------------
(* Properties *)

\* The handler op ran in this step and ended with outcome
Ran(op, outcome) == last'.op = op /\ last'.outcome = outcome

\* The client of the row the table has as its current one
SelectedId == rows[current].id

IsScheduled(a) == a.status = T_agendado

\* How many times the text d is an item of the list
CountIn(list, d) == Cardinality({i \in 1..Len(list) : list[i] = d})

\* C1: a confirmed Delete of the selected Client removes exactly the Appointment
\* rows whose client_id is that Client's id, whatever their status, and that
\* Client's row; every other Client row and every Appointment of another
\* Client stays as it was.
C1_DeleteRemovesExactly ==
    [][Ran("remove_selected", "ok") =>
          /\ current # 0
          /\ \E c \in clients : c.id = SelectedId
          /\ clients' = {c \in clients : c.id # SelectedId}
          /\ appointments' = {a \in appointments : a.client_id # SelectedId}]_vars

\* A Delete has removed a Client whose two Appointments held the ids 1 and 2,
\* and the Appointment of the other Client is still there.
C1_Witness ==
    /\ last.op = "remove_selected" /\ last.outcome = "ok"
    /\ seq_appts = 3
    /\ \E c \in clients : c.id # last.cid
    /\ \E a \in appointments : a.id = 3 /\ a.client_id # last.cid
    /\ Cardinality(appointments) = 1

\* C2: a completed Update of the selected Client leaves that Client with exactly
\* one "agendado" Appointment per item of list_next (as a multiset of dates; an
\* empty list leaves none), and changes no Appointment of that Client with
\* another status and no Appointment of another Client.
C2_UpdateReplacesScheduled ==
    [][Ran("update_selected", "ok") =>
          /\ current # 0
          /\ \A d \in {a.date : a \in appointments'} \cup Range(list_next) :
                Cardinality({a \in appointments' :
                                /\ a.client_id = SelectedId
                                /\ IsScheduled(a)
                                /\ a.date = d})
                = CountIn(list_next, d)
          /\ {a \in appointments' : a.client_id # SelectedId \/ ~IsScheduled(a)}
             = {a \in appointments : a.client_id # SelectedId \/ ~IsScheduled(a)}]_vars

\* An Update has replaced the scheduled Appointment of a Client that also has a
\* done one.
C2_Witness ==
    /\ last.op = "update_selected" /\ last.outcome = "ok"
    /\ list_next # <<>>
    /\ \E a \in appointments : a.client_id = last.cid /\ a.status = T_feito
    /\ \E a \in appointments : a.client_id = last.cid /\ IsScheduled(a) /\ a.id = 3

\* C3: for a Client created by Save, Load from selection followed at once by
\* Update, with no field edited in between, leaves the stored Client row as it
\* was and leaves its scheduled Appointments with the same dates, each as many
\* times as before.
C3_LoadThenUpdateIdempotent ==
    [][(/\ last.op = "fill_form_from_db" /\ last.outcome = "ok"
        /\ last.cid \in by_form
        /\ Ran("update_selected", "ok")) =>
          /\ last'.cid = last.cid
          /\ {c \in clients' : c.id = last.cid} = {c \in clients : c.id = last.cid}
          /\ \A d \in {a.date : a \in appointments \cup appointments'} :
                Cardinality({a \in appointments' :
                                a.client_id = last.cid /\ IsScheduled(a) /\ a.date = d})
                = Cardinality({a \in appointments :
                                a.client_id = last.cid /\ IsScheduled(a) /\ a.date = d})]_vars

\* An Update has rewritten a Client made by Save from the form loaded from it:
\* the form shows the Client's id and fields, and the Client's one scheduled
\* Appointment has been inserted anew.
C3_Witness ==
    /\ last.op = "update_selected" /\ last.outcome = "ok"
    /\ last.cid \in by_form
    /\ form.ed_id = str(last.cid)
    /\ form.ed_whats # <<>> /\ form.cb_plan # 0
    /\ \E c \in clients : c.id = last.cid /\ c.whatsapp = form.ed_whats
    /\ \E a \in appointments :
          a.client_id = last.cid /\ IsScheduled(a) /\ a.id = 2 /\ list_next = <<a.date>>
    /\ Cardinality(appointments) = 1

\* The text is empty or made of blanks only
IsBlank(s) == \A i \in 1..Len(s) : s[i] = " "

\* C7: Save with a name that is empty or only whitespace, and Update or Delete
\* with no row selected, each abort and leave the stored Clients, the stored
\* Appointments, the Table Projection and the form as they were.
C7_ValidationErrorsChangeNothing ==
    [][(\/ last'.op = "save_client" /\ IsBlank(form.ed_name)
        \/ last'.op \in {"update_selected", "remove_selected"} /\ current = 0) =>
          /\ last'.outcome = "warning"
          /\ UNCHANGED <<clients, appointments, seq_clients, seq_appts, rows, form,
                         list_next>>]_vars

\* Save has been refused for a name of one blank, with a Client in storage and an
\* item in the upcoming list.
C7_Witness ==
    /\ last.op = "save_client" /\ last.outcome = "warning"
    /\ form.ed_name = <<" ">>
    /\ clients # {}
    /\ list_next # <<>>

\* C10: every stored Client has a non-empty name.
C10_NameNonEmpty == \A c \in clients : c.name # <<>>

\* C9: every stored Appointment's client_id is the id of a stored Client.
C9_NoOrphanAppointments ==
    \A a \in appointments : \E c \in clients : c.id = a.client_id

\* C8: a Delete or an Import CSV step that deletes, inserts or modifies a Client
\* or an Appointment row is one in which the user answered Yes; one in which
\* the user answered No, and an Import CSV whose companion file is missing,
\* changes no Client and no Appointment row.
C8_DestructiveOperationsGuarded ==
    [][/\ (/\ last'.op \in {"remove_selected", "import_csv"}
           /\ <<clients, appointments>>' # <<clients, appointments>>)
          => last'.answer = "Yes"
       /\ (/\ last'.op \in {"remove_selected", "import_csv"}
           /\ last'.answer = "No")
          => UNCHANGED <<clients, appointments, seq_clients, seq_appts>>
       /\ Ran("import_csv", "missing")
          => /\ last'.answer = ""
             /\ UNCHANGED <<clients, appointments, seq_clients, seq_appts>>]_vars

\* An Import CSV has been declined with Clients and Appointments in storage.
C8_Witness ==
    /\ last.op = "import_csv" /\ last.answer = "No"
    /\ clients # {}
    /\ appointments # {}

\* The step is a confirmed Import CSV of the pair the Export CSV of the step
\* before wrote
ExportThenImport ==
    /\ last.op = "export_csv" /\ last.outcome = "ok"
    /\ Ran("import_csv", "ok-exported")

\* C4 as claimed: Export CSV followed at once by a confirmed Import CSV of the
\* two files leaves the Client rows and the Appointment rows identical, ids
\* included.
C4_RoundTripIdentical ==
    [][ExportThenImport =>
          /\ clients' = clients
          /\ appointments' = appointments]_vars

\* A TEXT value after a round trip through a CSV cell that is read back as it is
ReadBack(v) == IF v = NullText THEN <<>> ELSE v

ClientReadBack(c) ==
    [c EXCEPT !.whatsapp = ReadBack(@), !.notes = ReadBack(@)]

\* An Appointment row without its id
ApptContent(a) ==
    [client_id |-> a.client_id, date |-> a.date, kind |-> a.kind, status |-> a.status]

ApptReadBack(a) ==
    [client_id |-> a.client_id, date |-> a.date, kind |-> ReadBack(a.kind),
     status |-> ReadBack(a.status)]

\* C4 as amended: Export CSV followed at once by a confirmed Import CSV of the
\* two files leaves every Client row as it was, id included, but for a NULL
\* whatsapp or notes, which comes back as the empty text; the Appointment rows
\* come back with the same client_id, date, kind and status (a NULL kind or
\* status as the empty text), each as many times as before, under ids that no
\* Appointment had before.
C4_RoundTripUpToAppointmentIds ==
    [][ExportThenImport =>
          /\ clients' = {ClientReadBack(c) : c \in clients}
          /\ Cardinality(appointments') = Cardinality(appointments)
          /\ \A a \in appointments :
                Cardinality({b \in appointments' : ApptContent(b) = ApptReadBack(a)})
                = Cardinality({b \in appointments : ApptReadBack(b) = ApptReadBack(a)})
          /\ \A b \in appointments' : \A a \in appointments : b.id > a.id]_vars

\* The pair on disk has been imported into a database of two Clients, one with no
\* age, and two Appointments, and it is what an export of the database writes.
C4_Witness ==
    /\ last.op = "import_csv" /\ last.outcome = "ok-exported"
    /\ disk = CsvFiles(clients, appointments)
    /\ Cardinality(clients) = 2
    /\ \E c \in clients : c.age = NullInt
    /\ Cardinality(appointments) = 1

\* The blocks of a composed message
BlocksOf(msg) == {msg[i] : i \in {j \in 1..Len(msg) : msg[j].line = "block"}}

\* C5: a Client with hidden set has no block in the Weekly Digest, whatever
\* Appointments it has; it has a row in the clients file of the CSV export and
\* a row in the table of the PDF report, which holds one row per Client; and in
\* the Table Projection its row comes after the row of every Client that is
\* not hidden.
C5_HiddenExcludedFromDigestOnly ==
    \A c \in clients : c.hidden # 0 =>
        /\ \A order \in DigestOrders(clients) :
              \A b \in BlocksOf(compose_week_message(order, appointments, today)) :
                  b.cid # c.id
        /\ \E i \in 1..Len(CsvFiles(clients, appointments).clients) :
              CsvFiles(clients, appointments).clients[i][1] = str(c.id)
        /\ \A order \in PdfOrders(clients) :
              /\ Len(PdfData(order, appointments)) = Cardinality(clients)
              /\ \E i \in 1..Len(order) :
                    /\ order[i] = c
                    /\ PdfData(order, appointments)[i].name = c.name \o T_oculto
        /\ \E i \in 1..Len(rows) :
              /\ rows[i].id = c.id
              /\ \A j \in 1..Len(rows) : rows[j].hidden = 0 => j < i

\* A hidden Client and a Client that is not hidden each have a scheduled
\* Appointment three days from today, and the digest has a block.
C5_Witness ==
    /\ \E c \in clients :
          /\ c.hidden # 0
          /\ \E a \in appointments :
                a.client_id = c.id /\ IsScheduled(a) /\ a.date = D_0604
    /\ \E c \in clients :
          /\ c.hidden = 0
          /\ \E a \in appointments :
                a.client_id = c.id /\ IsScheduled(a) /\ a.date = D_0604
    /\ \E order \in DigestOrders(clients) :
          BlocksOf(compose_week_message(order, appointments, today)) # {}
    /\ Len(rows) = 2

\* The day after a day of the calendar
DayAfter(q) ==
    IF q.d < DaysInMonth(q.y, q.m) THEN [q EXCEPT !.d = q.d + 1]
    ELSE IF q.m < 12 THEN [y |-> q.y, m |-> q.m + 1, d |-> 1]
    ELSE [y |-> q.y + 1, m |-> 1, d |-> 1]

RECURSIVE DaysAfter(_, _)
DaysAfter(q, n) == IF n = 0 THEN q ELSE DaysAfter(DayAfter(q), n - 1)

\* The yyyy-mm-dd texts of today, today + 1 day, ..., today + 7 days
WeekTexts == {qdate_to_str(DaysAfter(today, n)) : n \in 0..7}

\* The digest composed lists the date text d under the Client c
Listed(c, d) ==
    \E b \in BlocksOf(sent) : b.cid = c.id /\ \E i \in 1..Len(b.datas) : b.datas[i] = human_date(d)

\* C6: in a composed Weekly Digest, a scheduled Appointment of a Client that is
\* not hidden is listed exactly when its date text is the yyyy-mm-dd text of a
\* day from today to today + 7 days, both included; a text that is no date is
\* never listed, and the message is composed all the same, header first.
C6_DigestWindow ==
    (last.op = "send_week_whatsapp" /\ last.outcome # "warning") =>
        /\ Len(sent) >= 2 /\ sent[1].line = "header"
        /\ \A c \in clients : c.hidden = 0 =>
              \A a \in appointments : (a.client_id = c.id /\ IsScheduled(a)) =>
                  (Listed(c, a.date) <=> a.date \in WeekTexts)

\* A digest has been composed over a Client with an Appointment dated today + 7
\* days, which it lists, and an Appointment whose date text is no date.
C6_Witness ==
    /\ last.op = "send_week_whatsapp" /\ last.outcome = "ok"
    /\ \E c \in clients :
          /\ c.hidden = 0
          /\ \E a \in appointments :
                /\ a.client_id = c.id /\ IsScheduled(a)
                /\ a.date = qdate_to_str(DaysAfter(today, 7))
                /\ Listed(c, a.date)
          /\ \E a \in appointments :
                a.client_id = c.id /\ IsScheduled(a) /\ ~HasYmd(a.date)

----------------------------------------------------------------------------
(* Client ids *)

\* C11: the id Save gives the Client it creates is the id of no Client stored and
\* of no Client that was ever stored, deleted or replaced by an import or not.
C11_SavedIdNeverUsedBefore ==
    [][Ran("save_client", "ok") =>
          /\ last'.cid \notin ever
          /\ last'.cid \notin {c.id : c \in clients}
          /\ \E c \in clients' : c.id = last'.cid
          /\ {c.id : c \in clients'} = {c.id : c \in clients} \cup {last'.cid}]_vars

\* Save has just created a Client while the id of a Client that was stored once
\* and is stored no more is free
C11_Witness ==
    /\ last.op = "save_client" /\ last.outcome = "ok"
    /\ \E c \in clients : c.id = last.cid
    /\ \E i \in ever : i \notin {c.id : c \in clients} /\ i < last.cid

----------------------------------------------------------------------------
(* Save *)

\* C12: a Save with a name that is not blank adds one Client row, under an id no
\* stored Client has, holding what the form shows (the name, WhatsApp and notes
\* without the blanks around them) and, for each item of the upcoming list, one
\* Appointment row of that Client with that date, kind 'retorno' and status
\* 'agendado', a date listed twice giving two rows; every row stored before is
\* still there unchanged, and the form ends with its id and name blank and
\* the upcoming list empty.
C12_SaveAddsOneClientAndItsList ==
    [][Ran("save_client", "ok") =>
          LET new == clients' \ clients
              newA == appointments' \ appointments
          IN  /\ ~IsBlank(form.ed_name)
              /\ clients \subseteq clients'
              /\ Cardinality(new) = 1
              /\ \A c \in new :
                    /\ c.id \notin {d.id : d \in clients}
                    /\ c.name = strip(form.ed_name)
                    /\ c.age = <<form.ed_age>>
                    /\ c.whatsapp = strip(form.ed_whats)
                    /\ c.first_consult = qdate_to_str(form.dt_first)
                    /\ str(c.plan_months) = PlanItems[form.cb_plan + 1]
                    /\ c.paid_returns = form.sp_paid
                    /\ (c.rescheduled = 1) = form.chk_resched
                    /\ c.rescheduled \in {0, 1}
                    /\ c.notes = strip(form.ed_notes)
                    /\ (c.hidden = 1) = form.chk_hidden
                    /\ c.hidden \in {0, 1}
                    /\ \A a \in newA :
                          /\ a.client_id = c.id
                          /\ a.kind = T_retorno
                          /\ a.status = T_agendado
                          /\ a.date \in Range(list_next)
              /\ appointments \subseteq appointments'
              /\ Cardinality(newA) = Len(list_next)
              /\ \A a \in newA : a.id \notin {b.id : b \in appointments}
              /\ \A d \in Range(list_next) :
                    Cardinality({a \in newA : a.date = d}) = CountIn(list_next, d)
              /\ form'.ed_id = <<>>
              /\ form'.ed_name = <<>>
              /\ list_next' = <<>>]_vars

\* Save has just stored a second Client whose upcoming list held the same date
\* twice
C12_Witness ==
    /\ last.op = "save_client" /\ last.outcome = "ok"
    /\ Cardinality(clients) = 2
    /\ \E a, b \in appointments :
          /\ a.id # b.id /\ a.date = b.date
          /\ a.client_id = last.cid /\ b.client_id = last.cid

----------------------------------------------------------------------------
(* The table *)

\* A letter in lower case, as str.lower gives it
Lower(c) ==
    CASE c = "A" -> "a" [] c = "B" -> "b" [] c = "E-acute" -> "e-acute" [] OTHER -> c

\* s comes before t when case is not looked at
LessIgnoringCase(s, t) ==
    TextLess([i \in 1..Len(s) |-> Lower(s[i])], [i \in 1..Len(t) |-> Lower(t[i])])

\* A handler that ends with a reload of the table has completed in this step
Reloaded ==
    \/ Ran("save_client", "ok")
    \/ Ran("update_selected", "ok")
    \/ Ran("remove_selected", "ok")
    \/ Ran("import_csv", "ok")

\* The rows of the table are the stored Clients, one row each
TableHoldsStorage ==
    /\ Len(rows') = Cardinality(clients')
    /\ {rows'[i] : i \in 1..Len(rows')} = {TableRow(c) : c \in clients'}

\* The Clients that are not hidden come first
TableVisibleFirst ==
    \A i, j \in 1..Len(rows') :
        i < j => ~(rows'[i].hidden # 0 /\ rows'[j].hidden = 0)

\* Within the hidden and within the others, names ascend when case is not looked at
TableNamesAscend ==
    \A i, j \in 1..Len(rows') :
        (i < j /\ (rows'[i].hidden # 0) = (rows'[j].hidden # 0))
            => ~LessIgnoringCase(rows'[j].name, rows'[i].name)

\* C13: after every completed Save, Update, Delete and Import CSV the table
\* holds exactly the stored Clients, one row each, every Client that is not
\* hidden before every hidden one and, within each group, by name ascending
\* without regard to case.
C13_TableIsStorageInOrder ==
    [][Reloaded => TableHoldsStorage /\ TableVisibleFirst /\ TableNamesAscend]_vars

\* The part of C13 that does not depend on the order of the names
C13_TableIsStorageVisibleFirst ==
    [][Reloaded => TableHoldsStorage /\ TableVisibleFirst]_vars

----------------------------------------------------------------------------
(* Clear *)

\* C14: Clear, whatever the form holds, leaves the id and the name blank, the age
\* 0, the plan at the default plan length 2, the paid returns 0, both flags
\* unset, the notes empty and the upcoming list empty, and changes no stored
\* Client or Appointment.
C14_ClearResetsToDefaults ==
    [][Ran("clear_form", "ok") =>
          /\ form'.ed_id = <<>>
          /\ form'.ed_name = <<>>
          /\ form'.ed_age = 0
          /\ int(PlanItems[form'.cb_plan + 1]) = 2
          /\ form'.sp_paid = 0
          /\ ~form'.chk_resched
          /\ ~form'.chk_hidden
          /\ form'.ed_notes = <<>>
          /\ list_next' = <<>>
          /\ clients' = clients
          /\ appointments' = appointments]_vars

\* C14 without the plan: what Clear does to the other fields and to storage
C14_ClearResetsAllButPlan ==
    [][Ran("clear_form", "ok") =>
          /\ form'.ed_id = <<>>
          /\ form'.ed_name = <<>>
          /\ form'.ed_age = 0
          /\ form'.sp_paid = 0
          /\ ~form'.chk_resched
          /\ ~form'.chk_hidden
          /\ form'.ed_notes = <<>>
          /\ list_next' = <<>>
          /\ clients' = clients
          /\ appointments' = appointments]_vars

----------------------------------------------------------------------------
(* Update *)

\* C15: Update writes to the Client of the current row of the table and to no
\* other, whatever id the form shows: that Client's row takes the values of the
\* form and its scheduled Appointments become the upcoming list, while every
\* other Client, the one the form was loaded from included, keeps its row and
\* its Appointments.
C15_UpdateWritesToSelection ==
    [][Ran("update_selected", "ok") =>
          /\ current # 0
          /\ LET b == rows[current].id
             IN  /\ last'.cid = b
                 /\ {c \in clients' : c.id # b} = {c \in clients : c.id # b}
                 /\ {a \in appointments' : a.client_id # b}
                        = {a \in appointments : a.client_id # b}
                 /\ {a \in appointments' : a.client_id = b /\ ~IsScheduled(a)}
                        = {a \in appointments : a.client_id = b /\ ~IsScheduled(a)}
                 /\ \E c \in clients' : c.id = b
                 /\ \A c \in clients' :
                       c.id = b =>
                         /\ c.name = strip(form.ed_name)
                         /\ c.age = <<form.ed_age>>
                         /\ c.whatsapp = strip(form.ed_whats)
                         /\ c.first_consult = qdate_to_str(form.dt_first)
                         /\ str(c.plan_months) = PlanItems[form.cb_plan + 1]
                         /\ c.paid_returns = form.sp_paid
                         /\ (c.rescheduled = 1) = form.chk_resched
                         /\ c.notes = strip(form.ed_notes)
                         /\ (c.hidden = 1) = form.chk_hidden
                 /\ \A a \in appointments' :
                       (a.client_id = b /\ IsScheduled(a)) => a.date \in Range(list_next)
                 /\ \A d \in Range(list_next) :
                       Cardinality({a \in appointments' :
                                       a.client_id = b /\ IsScheduled(a) /\ a.date = d})
                       = CountIn(list_next, d)]_vars

\* Update has just written to the selected Client while the form, loaded from
\* another stored Client, shows that other Client's id and a non-empty
\* upcoming list
C15_Witness ==
    /\ last.op = "update_selected" /\ last.outcome = "ok"
    /\ IsIntText(form.ed_id)
    /\ int(form.ed_id) # last.cid
    /\ \E c \in clients : c.id = int(form.ed_id)
    /\ \E c \in clients : c.id = last.cid /\ c.name = strip(form.ed_name)
    /\ list_next # <<>>
    /\ \E a \in appointments : a.client_id = last.cid

====
